---- MODULE Spec2Model ----
(***************************************************************************)
(* The `limacharlie usp` command line (limacharlie/USP.py): main parses    *)
(* the command line and dispatches to do_validate, which loads the mapping, *)
(* the mappings file, the sample and the indexing rules, calls the remote  *)
(* validation procedure once and renders its response.                     *)
(*                                                                         *)
(* One run of the process is one behaviour.  The command line is chosen in *)
(* Init, the content of a file when the program opens it, the response of  *)
(* the remote procedure when it is called.                                 *)
(***************************************************************************)
EXTENDS Integers, Sequences, FiniteSets, TLC

VARIABLES
    argv,        \* the command line, a record of its flags (None: flag absent)
    args,        \* the argparse namespace, once parse_args has accepted argv
    pc,          \* the position in main / do_validate
    files,       \* path -> what the file system holds there, once opened
    mapping,     \* do_validate's local `mapping`
    mappings,    \* do_validate's local `mappings`
    text_input,  \* do_validate's local `text_input`
    json_input,  \* do_validate's local `json_input`
    indexing,    \* do_validate's local `indexing`
    requests,    \* the calls made to Manager.validateUSP, in order
    result,      \* do_validate's local `result`
    stdout,      \* what was written to stdout, one entry per write
    stderr,      \* what was written to stderr, one entry per write
    exitCode,    \* <<the exit code of the process>>, << >> while it runs
    loads,       \* the calls of _load_file_content, with their outcome
    steps        \* the steps of main / do_validate executed so far

vars == <<argv, args, pc, files, mapping, mappings, text_input, json_input,
          indexing, requests, result, stdout, stderr, exitCode, loads, steps>>

-----------------------------------------------------------------------------
(* Bounds *)

\* the number of command-line items that differ from the bare `validate`
MaxArgs == 4
\* the number of events in a response's results
MaxResults == 2

-----------------------------------------------------------------------------
(* Python values *)

\* an absent str argument (argparse default=None)
None == "<None>"
\* Python truthiness of an Optional[str]
TruthyStr(s) == s # None /\ s # ""

\* a loaded / parsed value: its Python type and the text it was built from
Val(kind, text) == [kind |-> kind, text |-> text]
PyNone == Val("None", "")
IsNone(v) == v.kind = "None"
\* isinstance(v, (list, dict)): any JSON container passes the shape check
IsListOrDict(v) == v.kind \in {"list", "dict"}

\* isinstance(v, list)
IsList(v) == v.kind = "list"

NL == "\n"

Range(s) == {s[i] : i \in 1..Len(s)}

-----------------------------------------------------------------------------
(* Documents: the texts of the inline arguments and of the files *)

JsonListDocs == {"[{\"src\": \"inline\"}]", "[{\"src\": \"file\"}]", "[{\"k\": \"v\"}]"}
JsonDictDocs == {"{\"parsing_re\": \".*\"}", "{\"key\": \"value\"}", "{\"not\": \"array\"}"}
JsonNullDocs == {"null"}
\* YAML documents that are not JSON
YamlDictDocs == {"parsing_re: .*"}
YamlNullDocs == {""}
YamlErrorDocs == {"{a: ["}

\* json.loads(text): the parsed value, or JSONDecodeError
JsonLoads(text) ==
    IF text \in JsonListDocs THEN [ok |-> TRUE, val |-> Val("list", text)]
    ELSE IF text \in JsonDictDocs THEN [ok |-> TRUE, val |-> Val("dict", text)]
    ELSE IF text \in JsonNullDocs THEN [ok |-> TRUE, val |-> PyNone]
    ELSE [ok |-> FALSE, val |-> PyNone]

\* yaml.safe_load(content): JSON is a subset of YAML; an empty document is
\* None; a plain scalar is a str; a broken flow collection is a YAMLError
YamlSafeLoad(text) ==
    IF JsonLoads(text).ok THEN JsonLoads(text)
    ELSE IF text \in YamlDictDocs THEN [ok |-> TRUE, val |-> Val("dict", text)]
    ELSE IF text \in YamlNullDocs THEN [ok |-> TRUE, val |-> PyNone]
    ELSE IF text \in YamlErrorDocs THEN [ok |-> FALSE, val |-> PyNone]
    ELSE [ok |-> TRUE, val |-> Val("str", text)]

\* str(e) of the exceptions the program formats into its messages, each
\* taken as fragments of one line
JsonErrorText == <<"Expecting value: line 1 column 1 (char 0)">>
YamlErrorText == <<"while parsing a flow sequence">>
NotFoundText(path) == <<"[Errno 2] No such file or directory: '", path, "'">>
ReadErrorText(path) == <<"[Errno 21] Is a directory: '", path, "'">>
ApiErrorText == <<"Api failure (500): internal error">>

-----------------------------------------------------------------------------
(* The file system *)

Unopened == "<unopened>"
Missing == "<missing>"
Unreadable == "<unreadable>"

MappingPath == "mapping.yaml"
MappingsPath == "mappings.json"
InputPath == "input.json"
IndexingPath == "indexing.json"
Paths == {MappingPath, MappingsPath, InputPath, IndexingPath}

\* what the program may find at a path when it opens it
FileStates(path) ==
    IF path = MappingPath
    THEN {Missing, "parsing_re: .*", "", "{a: ["}
    ELSE IF path = InputPath
    THEN {Missing, Unreadable, "[{\"src\": \"file\"}]", "{\"key\": \"value\"}",
          "line1 line2"}
    ELSE {Missing, Unreadable, "[{\"k\": \"v\"}]", "{\"not\": \"array\"}",
          "not valid json {{{"}

-----------------------------------------------------------------------------
(* The helpers of USP.py *)

\* the outcome of a helper: a value returned, or a message handed to reportError
Returned(v) == [ok |-> TRUE, val |-> v, err |-> <<>>]
Reported(msg) == [ok |-> FALSE, val |-> PyNone, err |-> msg]

\* _load_file_content without its JSONDecodeError handler: content that does
\* not parse is handed back as text
load_file_content_lenient(file_path, st, as_json) ==
    IF st = Missing
    THEN Reported(<<"File not found: ", file_path>>)
    ELSE IF st = Unreadable
    THEN Reported(<<"Error reading file ", file_path, ": ">> \o ReadErrorText(file_path))
    ELSE IF as_json /\ JsonLoads(st).ok
    THEN Returned(JsonLoads(st).val)
    ELSE Returned(Val("str", st))

\* _load_file_content(file_path, as_json) when the file system holds `st` at
\* file_path
load_file_content(file_path, st, as_json) ==
    IF st = Missing
    THEN Reported(<<"File not found: ", file_path>>)
    ELSE IF st = Unreadable
    THEN Reported(<<"Error reading file ", file_path, ": ">> \o ReadErrorText(file_path))
    ELSE IF as_json
    THEN IF JsonLoads(st).ok
         THEN Returned(JsonLoads(st).val)
         ELSE Reported(<<"Invalid JSON in file ", file_path, ": ">> \o JsonErrorText)
    ELSE Returned(Val("str", st))

\* _load_mapping with its two branches in the other order: the inline
\* mapping is looked at before the mapping file
load_mapping_inline_first(a, st) ==
    IF TruthyStr(a.mapping)
    THEN IF JsonLoads(a.mapping).ok
         THEN Returned(JsonLoads(a.mapping).val)
         ELSE Reported(<<"Invalid JSON in mapping argument: ">> \o JsonErrorText)
    ELSE IF TruthyStr(a.mapping_file)
    THEN IF st \in {Missing, Unreadable}
         THEN Reported(<<"Error loading mapping file: ">> \o NotFoundText(a.mapping_file))
         ELSE IF YamlSafeLoad(st).ok
         THEN Returned(YamlSafeLoad(st).val)
         ELSE Reported(<<"Error loading mapping file: ">> \o YamlErrorText)
    ELSE Returned(PyNone)

\* _load_mapping(args) when the file system holds `st` at args.mapping_file
load_mapping(a, st) ==
    IF TruthyStr(a.mapping_file)
    THEN IF st = Missing
         THEN Reported(<<"Error loading mapping file: ">> \o NotFoundText(a.mapping_file))
         ELSE IF st = Unreadable
         THEN Reported(<<"Error loading mapping file: ">> \o ReadErrorText(a.mapping_file))
         ELSE IF YamlSafeLoad(st).ok
         THEN Returned(YamlSafeLoad(st).val)
         ELSE Reported(<<"Error loading mapping file: ">> \o YamlErrorText)
    ELSE IF TruthyStr(a.mapping)
    THEN IF JsonLoads(a.mapping).ok
         THEN Returned(JsonLoads(a.mapping).val)
         ELSE Reported(<<"Invalid JSON in mapping argument: ">> \o JsonErrorText)
    ELSE Returned(PyNone)

\* do_validate's builtin_parser_platforms
builtin_parser_platforms == <<"cef", "wel", "gcp", "aws", "1password", "duo", "slack">>

\* the membership test against a list that lacks gcp
IsBuiltinWithoutGcp(platform) == platform \in Range(builtin_parser_platforms) \ {"gcp"}

\* args.platform in builtin_parser_platforms
IsBuiltin(platform) == platform \in Range(builtin_parser_platforms)

\* ", ".join(names)
RECURSIVE Join(_)
Join(names) ==
    IF Len(names) = 0 THEN <<>>
    ELSE IF Len(names) = 1 THEN <<names[1]>>
    ELSE <<names[1], ", ">> \o Join(Tail(names))

\* the message of the mapping-requirement check
MappingRequiredMsg(platform) ==
    <<"Platform \"", platform, "\" requires a mapping configuration.", NL,
      "Use --mapping, --mapping-file, or --mappings-file to provide one.", NL,
      "Platforms with built-in parsers (no mapping required): ">>
    \o Join(builtin_parser_platforms)

MappingsShapeMsg == <<"--mappings-file must contain a JSON ", "array", " of mapping descriptors">>
JsonInputShapeMsg == <<"JSON input must be an ", "array", " of objects">>
IndexingShapeMsg == <<"--indexing-file must contain a JSON ", "array", " of indexing rules">>
InputRequiredMsg == <<"Either ", "--input", " or ", "--input-file", " is required">>
InputJsonErrorMsg == <<"Invalid JSON in input argument: ">> \o JsonErrorText
ApiErrorMsg == <<"API error", ": ">> \o ApiErrorText

\* the number of lines of a written text: the number of line breaks in it
LineCount(text) == Cardinality({i \in 1..Len(text) : text[i] = NL})

-----------------------------------------------------------------------------
(* The response of the remote validation procedure *)

\* a JSON value of an event: a scalar (by its str()) or an object, the
\* sequence of its key/value pairs in order
Scalar(text) == [t |-> "s", s |-> text, d |-> <<>>]
Object(pairs) == [t |-> "d", s |-> "", d |-> pairs]
KV(key, value) == [k |-> key, v |-> value]

\* key in d
HasKey(d, key) == \E i \in 1..Len(d.d) : d.d[i].k = key
\* d.get(key, default)
DictGet(d, key, default) ==
    IF HasKey(d, key)
    THEN d.d[CHOOSE i \in 1..Len(d.d) : d.d[i].k = key].v
    ELSE default
\* bool(v)
Truthy(v) == IF v.t = "s" THEN v.s # "" ELSE Len(v.d) > 0
\* str(v)
Str(v) == IF v.t = "s" THEN v.s ELSE "{...}"

\* the events a response is made of
EvtNested ==
    Object(<<KV("event", Object(<<KV("a", Scalar("1")), KV("b", Scalar("2"))>>)),
             KV("routing", Object(<<KV("hostname", Scalar("h"))>>))>>)
EvtFlat ==
    Object(<<KV("event_type", Scalar("test")), KV("data", Scalar("parsed"))>>)
EvtThisHost ==
    Object(<<KV("routing", Object(<<KV("this", Object(<<KV("hostname", Scalar("h2"))>>))>>)),
             KV("event", Object(<<KV("routing", Scalar("r")), KV("msg", Scalar("m"))>>))>>)
EvtFlatRouted ==
    Object(<<KV("routing", Object(<<KV("hostname", Scalar("h")),
                                     KV("this", Object(<<KV("hostname", Scalar("h2"))>>))>>)),
             KV("msg", Scalar("m"))>>)
Events == {EvtNested, EvtFlat, EvtThisHost, EvtFlatRouted}

RECURSIVE SeqsUpTo(_, _)
SeqsUpTo(S, n) ==
    IF n = 0 THEN {<<>>}
    ELSE LET shorter == SeqsUpTo(S, n - 1)
         IN  shorter \cup {Append(q, x) : q \in {r \in shorter : Len(r) = n - 1}, x \in S}

ErrorLists == {<<>>, <<"bad regex">>}
NoResult == [errors |-> <<>>, results |-> <<>>]
Responses == [errors : ErrorLists, results : SeqsUpTo(Events, MaxResults)]

-----------------------------------------------------------------------------
(* Rendering (do_validate, "Format and display results") *)

\* print(text): one write of the text and a line break
Out(text) == [fmt |-> "text", text |-> text \o <<NL>>, data |-> <<>>]
\* print(json.dumps(results, indent=2)) and print(yaml.safe_dump(results))
Dump(fmt, results) == [fmt |-> fmt, text |-> <<NL>>, data |-> results]

\* the cases tested in the other order: results before errors
ClassifyResultsFirst(errors, results) ==
    IF Len(results) > 0 THEN "Success"
    ELSE IF Len(errors) > 0 THEN "HardFailure"
    ELSE "EmptyResult"

\* the three cases of the if / elif / else over errors and results
Classify(errors, results) ==
    IF Len(errors) > 0 THEN "HardFailure"
    ELSE IF Len(results) = 0 THEN "EmptyResult"
    ELSE "Success"

RenderHardFailure(errors, results) ==
    <<Out(<<"VALIDATION FAILED", NL>>), Out(<<"Errors:">>)>>
    \o [i \in 1..Len(errors) |-> Out(<<"  - ", errors[i]>>)]
    \o <<Out(<<>>)>>
    \o (IF Len(results) > 0
        THEN <<Out(<<"Partially parsed ", ToString(Len(results)),
                     " event(s) before failure.">>)>>
        ELSE <<>>)

RenderEmptyResult ==
    <<Out(<<"VALIDATION FAILED", NL>>),
      Out(<<"WARNING: ", "No events were parsed", " from the sample data.", NL>>),
      Out(<<"This usually indicates one of the following issues:">>),
      Out(<<"  - The parsing_re regex does not match the input format">>),
      Out(<<"  - The platform type does not match the data format">>),
      Out(<<"  - The sample data is empty or contains only whitespace">>),
      Out(<<>>),
      Out(<<"Suggestions:">>),
      Out(<<"  - Verify your parsing_re regex matches the sample data">>),
      Out(<<"  - Check that the platform matches your data format (text, json, cef, etc.)">>),
      Out(<<"  - Ensure the sample file contains valid log data">>)>>

\* the summary without its `if key != 'routing'`: every key gets a line
SummaryOfEventAllKeys(event, i) ==
    LET routing == DictGet(event, "routing", Object(<<>>))
        hostname == DictGet(routing, "hostname",
                            DictGet(DictGet(routing, "this", Object(<<>>)),
                                    "hostname", Scalar("")))
        evt == DictGet(event, "event", event)
        fields == evt.d
    IN  <<Out(<<"Event ", ToString(i), ":">>)>>
        \o (IF Truthy(routing) /\ Truthy(hostname)
            THEN <<Out(<<"  hostname: ", Str(hostname)>>)>>
            ELSE <<>>)
        \o [j \in 1..Len(fields) |-> Out(<<"  ", fields[j].k, ": ", Str(fields[j].v)>>)]
        \o <<Out(<<>>)>>

\* the summary of one event, the i-th of the results
SummaryOfEvent(event, i) ==
    LET routing == DictGet(event, "routing", Object(<<>>))
        hostname == DictGet(routing, "hostname",
                            DictGet(DictGet(routing, "this", Object(<<>>)),
                                    "hostname", Scalar("")))
        evt == DictGet(event, "event", event)
        fields == SelectSeq(evt.d, LAMBDA p : p.k # "routing")
    IN  <<Out(<<"Event ", ToString(i), ":">>)>>
        \o (IF Truthy(routing) /\ Truthy(hostname)
            THEN <<Out(<<"  hostname: ", Str(hostname)>>)>>
            ELSE <<>>)
        \o [j \in 1..Len(fields) |-> Out(<<"  ", fields[j].k, ": ", Str(fields[j].v)>>)]
        \o <<Out(<<>>)>>

\* for i, event in enumerate(results, 1), from the i-th event on
RECURSIVE Summary(_, _)
Summary(results, i) ==
    IF i > Len(results) THEN <<>>
    ELSE SummaryOfEvent(results[i], i) \o Summary(results, i + 1)

RenderSuccess(results, output_format) ==
    <<Out(<<"VALIDATION SUCCESSFUL", NL>>),
      Out(<<"Parsed ", ToString(Len(results)), " event(s)", ":", NL>>)>>
    \o (IF output_format = "json" THEN <<Dump("json", results)>>
        ELSE IF output_format = "yaml" THEN <<Dump("yaml", results)>>
        ELSE Summary(results, 1))

-----------------------------------------------------------------------------
(* The command line (main) *)

\* the `actions` dict of main: its keys
actions == {"validate"}
\* the choices of --platform and of --output-format
PlatformChoices == {"text", "json", "cef", "gcp", "aws"}
OutputChoices == {"summary", "json", "yaml"}

\* str.lower() on the action strings of the model
Lower(s) == IF s = "VALIDATE" THEN "validate" ELSE s

\* the command line `validate` with no flag
BareArgv ==
    [action |-> "validate", platform |-> None, mapping |-> None,
     mapping_file |-> None, mappings_file |-> None, input |-> None,
     input_file |-> None, json_input |-> FALSE, hostname |-> None,
     indexing_file |-> None, output_format |-> None]

\* the command lines of the model: what each item may be given as
ArgvSpace ==
    [action : {None, "validate", "VALIDATE", "deploy"},
     platform : {None, "json", "cef", "gcp", "aws", "invalid_platform"},
     mapping : {None, "", "{\"parsing_re\": \".*\"}", "null", "not valid json"},
     mapping_file : {None, "", MappingPath},
     mappings_file : {None, "", MappingsPath},
     input : {None, "", "test data", "[{\"src\": \"inline\"}]", "{\"key\": \"value\"}"},
     input_file : {None, "", InputPath},
     json_input : BOOLEAN,
     hostname : {None},
     indexing_file : {None, "", IndexingPath},
     output_format : {None, "json", "yaml", "xml"}]

\* the number of items of a command line that are not those of BareArgv
Given(a) == Cardinality({f \in DOMAIN BareArgv : a[f] # BareArgv[f]})

CommandLines == {a \in ArgvSpace : Given(a) <= MaxArgs}

\* the namespace parse_args builds: the flags, with the defaults of the
\* absent --platform and --output-format
Namespace(a) ==
    [a EXCEPT !.platform = IF a.platform = None THEN "text" ELSE a.platform,
              !.output_format = IF a.output_format = None THEN "summary"
                                ELSE a.output_format]

\* what parse_args rejects: no action, or a value outside the choices of
\* --platform or --output-format
Rejected(a) ==
    \/ a.action = None
    \/ Namespace(a).platform \notin PlatformChoices
    \/ Namespace(a).output_format \notin OutputChoices

-----------------------------------------------------------------------------
(* The process *)

Init ==
    /\ argv \in CommandLines
    /\ args = BareArgv
    /\ pc = "main"
    /\ files = [p \in Paths |-> Unopened]
    /\ mapping = PyNone
    /\ mappings = PyNone
    /\ text_input = PyNone
    /\ json_input = PyNone
    /\ indexing = PyNone
    /\ requests = <<>>
    /\ result = NoResult
    /\ stdout = <<>>
    /\ stderr = <<>>
    /\ exitCode = <<>>
    /\ loads = <<>>
    /\ steps = <<>>

locals == <<mapping, mappings, text_input, json_input, indexing, result>>

\* reportError(msg): the message and a line break to stderr, then sys.exit(1)
reportError(msg) ==
    /\ stderr' = Append(stderr, [by |-> "reportError", text |-> msg \o <<NL>>])
    /\ pc' = "exit"
    /\ exitCode' = <<1>>

\* the step goes on to `next` without writing anything
GoTo(next) ==
    /\ pc' = next
    /\ UNCHANGED <<stderr, exitCode>>

\* the record of one call of _load_file_content
LoadCall(file_path, st, as_json) ==
    [file_path |-> file_path, as_json |-> as_json, st |-> st,
     out |-> load_file_content(file_path, st, as_json)]

\* main: parser.parse_args(sourceArgs): a missing action or a value outside
\* the choices is the parser's own error, usage to stderr and exit code 2
ParseArgs ==
    /\ pc = "main"
    /\ steps' = Append(steps, "parse_args")
    /\ UNCHANGED <<argv, files, locals, requests, loads>>
    /\ \/ /\ Rejected(argv)
          /\ stderr' = Append(stderr, [by |-> "argparse",
                                      text |-> <<"usage: limacharlie usp", NL,
                                                 "limacharlie usp: error: ", NL>>])
          /\ pc' = "exit"
          /\ exitCode' = <<2>>
          /\ UNCHANGED <<args, stdout>>
       \/ /\ ~Rejected(argv)
          /\ args' = Namespace(argv)
          /\ pc' = "dispatch"
          /\ UNCHANGED <<stdout, stderr, exitCode>>

\* main: actions[args.action.lower()](args)
Dispatch ==
    /\ pc = "dispatch"
    /\ steps' = Append(steps, "dispatch")
    /\ UNCHANGED <<argv, args, files, locals, requests, stdout, loads>>
    /\ IF Lower(args.action) \in actions
       THEN GoTo("load_mapping")
       ELSE /\ stderr' = Append(stderr, [by |-> "traceback",
                                        text |-> <<"Traceback (most recent call last):", NL,
                                                   "KeyError: '", Lower(args.action), "'", NL>>])
            /\ pc' = "uncaught"
            /\ exitCode' = <<1>>

\* do_validate: mapping = _load_mapping(args)
LoadMapping ==
    /\ pc = "load_mapping"
    /\ steps' = Append(steps, "load_mapping")
    /\ UNCHANGED <<argv, args, mappings, text_input, json_input, indexing, result,
                   requests, stdout, loads>>
    /\ \E st \in (IF TruthyStr(args.mapping_file) THEN FileStates(args.mapping_file)
                  ELSE {Unopened}) :
          /\ files' = IF TruthyStr(args.mapping_file)
                      THEN [files EXCEPT ![args.mapping_file] = st]
                      ELSE files
          /\ LET r == load_mapping(args, st)
             IN  IF r.ok
                 THEN mapping' = r.val /\ GoTo("check_mapping")
                 ELSE reportError(r.err) /\ UNCHANGED mapping

\* the mapping-requirement check with the input-present test put in front
\* of it
CheckMappingAfterInput ==
    /\ pc = "check_mapping"
    /\ steps' = Append(steps, "check_mapping")
    /\ UNCHANGED <<argv, args, files, locals, requests, stdout, loads>>
    /\ IF ~TruthyStr(args.input) /\ ~TruthyStr(args.input_file)
       THEN reportError(InputRequiredMsg)
       ELSE IF IsNone(mapping) /\ args.mappings_file = None /\ ~IsBuiltin(args.platform)
       THEN reportError(MappingRequiredMsg(args.platform))
       ELSE GoTo("load_mappings")

\* do_validate: the mapping-requirement check
CheckMapping ==
    /\ pc = "check_mapping"
    /\ steps' = Append(steps, "check_mapping")
    /\ UNCHANGED <<argv, args, files, locals, requests, stdout, loads>>
    /\ IF IsNone(mapping) /\ args.mappings_file = None /\ ~IsBuiltin(args.platform)
       THEN reportError(MappingRequiredMsg(args.platform))
       ELSE GoTo("load_mappings")

\* do_validate: "Load mappings array if provided"
LoadMappings ==
    /\ pc = "load_mappings"
    /\ steps' = Append(steps, "load_mappings")
    /\ UNCHANGED <<argv, args, mapping, text_input, json_input, indexing, result,
                   requests, stdout>>
    /\ IF TruthyStr(args.mappings_file)
       THEN \E st \in FileStates(args.mappings_file) :
               LET c == LoadCall(args.mappings_file, st, TRUE)
               IN  /\ files' = [files EXCEPT ![args.mappings_file] = st]
                   /\ loads' = Append(loads, c)
                   /\ IF ~c.out.ok
                      THEN reportError(c.out.err) /\ UNCHANGED mappings
                      ELSE /\ mappings' = c.out.val
                           /\ IF ~IsList(c.out.val)
                              THEN reportError(MappingsShapeMsg)
                              ELSE GoTo("load_input")
       ELSE GoTo("load_input") /\ UNCHANGED <<files, loads, mappings>>

\* the input resolver with the two sources tried the other way round: the
\* inline value first, the file only without one
LoadInputInlineFirst ==
    /\ pc = "load_input"
    /\ steps' = Append(steps, "load_input")
    /\ UNCHANGED <<argv, args, mapping, mappings, indexing, result, requests, stdout>>
    /\ IF TruthyStr(args.input)
       THEN /\ UNCHANGED <<files, loads>>
            /\ IF args.json_input
               THEN IF JsonLoads(args.input).ok
                    THEN /\ json_input' = JsonLoads(args.input).val
                         /\ UNCHANGED text_input
                         /\ IF ~IsList(JsonLoads(args.input).val)
                            THEN reportError(JsonInputShapeMsg)
                            ELSE GoTo("check_input")
                    ELSE /\ reportError(InputJsonErrorMsg)
                         /\ UNCHANGED <<text_input, json_input>>
               ELSE /\ text_input' = Val("str", args.input)
                    /\ UNCHANGED json_input
                    /\ GoTo("check_input")
       ELSE IF TruthyStr(args.input_file)
       THEN \E st \in FileStates(args.input_file) :
               LET c == LoadCall(args.input_file, st, args.json_input)
               IN  /\ files' = [files EXCEPT ![args.input_file] = st]
                   /\ loads' = Append(loads, c)
                   /\ IF ~c.out.ok
                      THEN reportError(c.out.err) /\ UNCHANGED <<text_input, json_input>>
                      ELSE IF args.json_input
                      THEN /\ json_input' = c.out.val
                           /\ UNCHANGED text_input
                           /\ IF ~IsList(c.out.val)
                              THEN reportError(JsonInputShapeMsg)
                              ELSE GoTo("check_input")
                      ELSE /\ text_input' = c.out.val
                           /\ UNCHANGED json_input
                           /\ GoTo("check_input")
       ELSE /\ UNCHANGED <<files, loads>>
            /\ GoTo("check_input") /\ UNCHANGED <<text_input, json_input>>

\* do_validate: "Load input data"
LoadInput ==
    /\ pc = "load_input"
    /\ steps' = Append(steps, "load_input")
    /\ UNCHANGED <<argv, args, mapping, mappings, indexing, result, requests, stdout>>
    /\ IF TruthyStr(args.input_file)
       THEN \E st \in FileStates(args.input_file) :
               LET c == LoadCall(args.input_file, st, args.json_input)
               IN  /\ files' = [files EXCEPT ![args.input_file] = st]
                   /\ loads' = Append(loads, c)
                   /\ IF ~c.out.ok
                      THEN reportError(c.out.err) /\ UNCHANGED <<text_input, json_input>>
                      ELSE IF args.json_input
                      THEN /\ json_input' = c.out.val
                           /\ UNCHANGED text_input
                           /\ IF ~IsList(c.out.val)
                              THEN reportError(JsonInputShapeMsg)
                              ELSE GoTo("check_input")
                      ELSE /\ text_input' = c.out.val
                           /\ UNCHANGED json_input
                           /\ GoTo("check_input")
       ELSE /\ UNCHANGED <<files, loads>>
            /\ IF TruthyStr(args.input)
               THEN IF args.json_input
                    THEN IF JsonLoads(args.input).ok
                         THEN /\ json_input' = JsonLoads(args.input).val
                              /\ UNCHANGED text_input
                              /\ IF ~IsList(JsonLoads(args.input).val)
                                 THEN reportError(JsonInputShapeMsg)
                                 ELSE GoTo("check_input")
                         ELSE /\ reportError(InputJsonErrorMsg)
                              /\ UNCHANGED <<text_input, json_input>>
                    ELSE /\ text_input' = Val("str", args.input)
                         /\ UNCHANGED json_input
                         /\ GoTo("check_input")
               ELSE GoTo("check_input") /\ UNCHANGED <<text_input, json_input>>

\* the input-present check made on the flags instead of the loaded values
CheckInputOnFlags ==
    /\ pc = "check_input"
    /\ steps' = Append(steps, "check_input")
    /\ UNCHANGED <<argv, args, files, locals, requests, stdout, loads>>
    /\ IF args.input = None /\ args.input_file = None
       THEN reportError(InputRequiredMsg)
       ELSE GoTo("load_indexing")

\* do_validate: the input-present check
CheckInput ==
    /\ pc = "check_input"
    /\ steps' = Append(steps, "check_input")
    /\ UNCHANGED <<argv, args, files, locals, requests, stdout, loads>>
    /\ IF IsNone(text_input) /\ IsNone(json_input)
       THEN reportError(InputRequiredMsg)
       ELSE GoTo("load_indexing")

\* do_validate: "Load indexing rules if provided"
LoadIndexing ==
    /\ pc = "load_indexing"
    /\ steps' = Append(steps, "load_indexing")
    /\ UNCHANGED <<argv, args, mapping, mappings, text_input, json_input, result,
                   requests, stdout>>
    /\ IF TruthyStr(args.indexing_file)
       THEN \E st \in FileStates(args.indexing_file) :
               LET c == LoadCall(args.indexing_file, st, TRUE)
               IN  /\ files' = [files EXCEPT ![args.indexing_file] = st]
                   /\ loads' = Append(loads, c)
                   /\ IF ~c.out.ok
                      THEN reportError(c.out.err) /\ UNCHANGED indexing
                      ELSE /\ indexing' = c.out.val
                           /\ IF ~IsList(c.out.val)
                              THEN reportError(IndexingShapeMsg)
                              ELSE GoTo("call_api")
       ELSE GoTo("call_api") /\ UNCHANGED <<files, loads, indexing>>

\* the keyword arguments of man.validateUSP(...)
Request ==
    [platform |-> args.platform, hostname |-> args.hostname, mapping |-> mapping,
     mappings |-> mappings, indexing |-> indexing, text_input |-> text_input,
     json_input |-> json_input]

\* the call outside any try: what it raises ends the process as an
\* uncaught exception
CallApiUncaught ==
    /\ pc = "call_api"
    /\ steps' = Append(steps, "call_api")
    /\ requests' = Append(requests, Request)
    /\ UNCHANGED <<argv, args, files, mapping, mappings, text_input, json_input,
                   indexing, stdout, loads>>
    /\ \/ \E response \in Responses :
             result' = response /\ GoTo("render")
       \/ /\ stderr' = Append(stderr, [by |-> "traceback",
                                       text |-> <<"Traceback (most recent call last):", NL>>
                                                \o ApiErrorText \o <<NL>>])
          /\ pc' = "uncaught"
          /\ exitCode' = <<1>>
          /\ UNCHANGED result

\* do_validate: "Call the validation API": the call returns a response or
\* raises, and what it raises is reported
CallApi ==
    /\ pc = "call_api"
    /\ steps' = Append(steps, "call_api")
    /\ requests' = Append(requests, Request)
    /\ UNCHANGED <<argv, args, files, mapping, mappings, text_input, json_input,
                   indexing, stdout, loads>>
    /\ \/ \E response \in Responses :
             result' = response /\ GoTo("render")
       \/ reportError(ApiErrorMsg) /\ UNCHANGED result

\* do_validate: "Format and display results"; a failure is sys.exit(1), a
\* success returns to main, which returns: the process ends with 0
Render ==
    /\ pc = "render"
    /\ steps' = Append(steps, "render")
    /\ UNCHANGED <<argv, args, files, locals, requests, stderr, loads>>
    /\ LET errors == result.errors
           results == result.results
           outcome == Classify(errors, results)
       IN  IF outcome = "HardFailure"
           THEN /\ stdout' = stdout \o RenderHardFailure(errors, results)
                /\ pc' = "exit"
                /\ exitCode' = <<1>>
           ELSE IF outcome = "EmptyResult"
           THEN /\ stdout' = stdout \o RenderEmptyResult
                /\ pc' = "exit"
                /\ exitCode' = <<1>>
           ELSE /\ stdout' = stdout \o RenderSuccess(results, args.output_format)
                /\ pc' = "returned"
                /\ exitCode' = <<0>>

Next ==
    \/ ParseArgs
    \/ Dispatch
    \/ LoadMapping
    \/ CheckMapping
    \/ LoadMappings
    \/ LoadInput
    \/ CheckInput
    \/ LoadIndexing
    \/ CallApi
    \/ Render

Spec == Init /\ [][Next]_vars

-----------------------------------------------------------------------------
(* What the claims speak of *)

\* the last step executed
LastStep == IF Len(steps) = 0 THEN "none" ELSE steps[Len(steps)]
Did(step) == step \in Range(steps)
\* the process has ended with this exit code
ExitedWith(code) == pc \in {"exit", "returned", "uncaught"} /\ exitCode = <<code>>
\* some write to stdout holds this fragment
Said(fragment) == \E i \in 1..Len(stdout) : fragment \in Range(stdout[i].text)
\* the messages reportError wrote
Reports == SelectSeq(stderr, LAMBDA w : w.by = "reportError")
\* the process ended in reportError, with one message on stderr, holding
\* each of these fragments
EndedReporting(fragments) ==
    /\ pc = "exit"
    /\ exitCode = <<1>>
    /\ Len(stderr) = 1
    /\ stderr[1].by = "reportError"
    /\ fragments \subseteq Range(stderr[1].text)

-----------------------------------------------------------------------------
(* C1 *)

\* C1: whatever the remote procedure returned, the rendering ends in one of
\* three outcomes, decided by errors and results alone and never by the
\* output format: errors non-empty, "VALIDATION FAILED" and exit code 1;
\* both empty, "VALIDATION FAILED" with "No events were parsed" and exit
\* code 1; errors empty and results non-empty, "VALIDATION SUCCESSFUL" with
\* "Parsed N event(s)", N the number of results, and exit code 0.
C1_ThreeOutcomes ==
    LastStep = "render" =>
        LET hard == result.errors # <<>>
            empty == result.errors = <<>> /\ result.results = <<>>
            parsedN == \E i \in 1..Len(stdout) :
                          /\ Len(stdout[i].text) >= 3
                          /\ SubSeq(stdout[i].text, 1, 3)
                               = <<"Parsed ", ToString(Len(result.results)), " event(s)">>
        IN  /\ hard => /\ ExitedWith(1)
                       /\ Said("VALIDATION FAILED")
                       /\ ~Said("VALIDATION SUCCESSFUL")
                       /\ ~Said("No events were parsed")
            /\ empty => /\ ExitedWith(1)
                        /\ Said("VALIDATION FAILED")
                        /\ Said("No events were parsed")
                        /\ ~Said("VALIDATION SUCCESSFUL")
            /\ (~hard /\ ~empty) => /\ ExitedWith(0)
                                    /\ Said("VALIDATION SUCCESSFUL")
                                    /\ parsedN
                                    /\ ~Said("VALIDATION FAILED")
                                    /\ ~Said("No events were parsed")

\* a response with errors and with results too was rendered as a failure,
\* in an output format other than the default
C1_Witness ==
    /\ LastStep = "render"
    /\ result.errors # <<>>
    /\ Len(result.results) = 2
    /\ args.output_format = "json"
    /\ ExitedWith(1)

-----------------------------------------------------------------------------
(* C2 *)

NoMappingSupplied ==
    args.mapping = None /\ args.mapping_file = None /\ args.mappings_file = None

-----------------------------------------------------------------------------
(* C3 *)

\* C3: every request issued for a platform without a built-in parser
\* carries a mapping or a mappings list.
C3_MappingInRequest ==
    \A i \in 1..Len(requests) :
        requests[i].platform \notin Range(builtin_parser_platforms) =>
            (~IsNone(requests[i].mapping) \/ ~IsNone(requests[i].mappings))

-----------------------------------------------------------------------------
(* C4 *)

\* C4: a request carries exactly one of text_input and json_input, json_input
\* when --json-input was given and text_input otherwise; with neither --input
\* nor --input-file no request is issued, and an invocation that got past
\* the mapping checks ends at the input-present check with exit code 1 and
\* a stderr message asking for --input or --input-file.
C4_OneInput ==
    /\ \A i \in 1..Len(requests) :
          IF args.json_input
          THEN requests[i].json_input.kind # "None" /\ requests[i].text_input.kind = "None"
          ELSE requests[i].text_input.kind # "None" /\ requests[i].json_input.kind = "None"
    /\ (args.input = None /\ args.input_file = None) =>
          /\ requests = <<>>
          /\ Did("load_input") =>
                \/ pc = "check_input"
                \/ /\ LastStep = "check_input"
                   /\ ExitedWith(1)
                   /\ Len(stderr) = 1
                   /\ stderr[1].by = "reportError"
                   /\ {"--input", "--input-file", " is required"} \subseteq Range(stderr[1].text)

\* a mapping was given but no input: the run ended at the input-present check
C4_Witness ==
    /\ args.input = None /\ args.input_file = None
    /\ ~IsNone(mapping)
    /\ LastStep = "check_input"
    /\ ExitedWith(1)

-----------------------------------------------------------------------------
(* C5 *)

\* C5: mappings, indexing and json_input of a request are null or a list;
\* a mappings file, an indexing file or a --json-input sample (file or
\* inline) that parses to something else than a list ends the invocation
\* with exit code 1 and a stderr message holding "array", before any remote
\* call.
C5_ListsOnly ==
    /\ \A i \in 1..Len(requests) :
          \A f \in {"mappings", "indexing", "json_input"} :
              requests[i][f].kind \in {"None", "list"}
    /\ \A i \in 1..Len(loads) :
          (loads[i].as_json /\ loads[i].out.ok /\ loads[i].out.val.kind # "list") =>
              /\ i = Len(loads)
              /\ EndedReporting({"array"})
              /\ requests = <<>>
    /\ (/\ Did("load_input")
        /\ args.json_input
        /\ ~TruthyStr(args.input_file)
        /\ TruthyStr(args.input)
        /\ args.input \in JsonDictDocs \cup JsonNullDocs) =>
              /\ LastStep = "load_input"
              /\ EndedReporting({"array"})
              /\ requests = <<>>

\* the indexing file held a JSON object: the run ended there
C5_Witness ==
    /\ LastStep = "load_indexing"
    /\ files[IndexingPath] = "{\"not\": \"array\"}"
    /\ ExitedWith(1)
    /\ requests = <<>>

-----------------------------------------------------------------------------
(* C6 *)

WellFormedJson == JsonListDocs \cup JsonDictDocs \cup JsonNullDocs

\* the local of do_validate a file at this path is loaded into
LocalOf(path) ==
    IF path = MappingsPath THEN mappings
    ELSE IF path = IndexingPath THEN indexing
    ELSE IF args.json_input THEN json_input ELSE text_input

\* C6: every call of _load_file_content has one of these outcomes: a missing
\* file, an unreadable file and, with as_json, content that is not
\* well-formed JSON end the process with exit code 1 and one stderr message
\* holding the path; any other call returns the text as it is (as_json
\* false) or the parsed value (as_json true).  A call that reported an error
\* returned nothing: it is the last call, and the local it was to fill is
\* still None.
C6_LoadOutcomes ==
    \A i \in 1..Len(loads) :
        LET c == loads[i]
            fails == \/ c.st \in {Missing, Unreadable}
                     \/ c.as_json /\ c.st \notin WellFormedJson
        IN  /\ fails <=> ~c.out.ok
            /\ fails =>
                  /\ i = Len(loads)
                  /\ EndedReporting({c.file_path})
                  /\ stderr[1].text = c.out.err \o <<NL>>
                  /\ stderr[1].text[1] =
                        (IF c.st = Missing THEN "File not found: "
                         ELSE IF c.st = Unreadable THEN "Error reading file "
                         ELSE "Invalid JSON in file ")
                  /\ LocalOf(c.file_path) = PyNone
            /\ (~fails /\ ~c.as_json) => c.out.val = [kind |-> "str", text |-> c.st]
            /\ (~fails /\ c.as_json) =>
                  /\ c.out.val.kind =
                        (IF c.st \in JsonListDocs THEN "list"
                         ELSE IF c.st \in JsonDictDocs THEN "dict" ELSE "None")
                  /\ c.out.val.kind # "None" => c.out.val.text = c.st

\* a file asked for as JSON held text that is not JSON: the run ended there
C6_Witness ==
    /\ Len(loads) = 1
    /\ loads[1].as_json
    /\ loads[1].st = "not valid json {{{"
    /\ ExitedWith(1)

-----------------------------------------------------------------------------
(* C7 *)

\* some message on stderr starts with this fragment
ErrStarts(fragment) == \E i \in 1..Len(stderr) : stderr[i].text[1] = fragment

\* C7: once _load_mapping has run: with a mapping file, the mapping is the
\* parsed content of the file and the inline --mapping is never parsed, a
\* file that cannot be loaded ending the process with exit code 1; with no
\* mapping file and an inline mapping, the mapping is that string parsed as
\* JSON, a parse failure ending the process with exit code 1; with neither,
\* the mapping is None and nothing is reported.
C7_FileFirst ==
    Did("load_mapping") =>
        IF TruthyStr(args.mapping_file)
        THEN LET st == files[args.mapping_file]
             IN  /\ st # Unopened
                 /\ ~ErrStarts("Invalid JSON in mapping argument: ")
                 /\ IF st \in {Missing, Unreadable} \cup YamlErrorDocs
                    THEN /\ LastStep = "load_mapping"
                         /\ EndedReporting({"Error loading mapping file: "})
                         /\ mapping = PyNone
                    ELSE /\ mapping = YamlSafeLoad(st).val
                         /\ mapping.kind # "None" => mapping.text = st
                         /\ LastStep = "load_mapping" => pc = "check_mapping"
        ELSE IF TruthyStr(args.mapping)
        THEN /\ files[MappingPath] = Unopened
             /\ IF args.mapping \in WellFormedJson
                THEN /\ mapping = JsonLoads(args.mapping).val
                     /\ mapping.kind # "None" => mapping.text = args.mapping
                     /\ LastStep = "load_mapping" => pc = "check_mapping"
                ELSE /\ LastStep = "load_mapping"
                     /\ EndedReporting({"Invalid JSON in mapping argument: "})
        ELSE /\ mapping = PyNone
             /\ files[MappingPath] = Unopened
             /\ LastStep = "load_mapping" => (pc = "check_mapping" /\ stderr = <<>>)
             /\ ~ErrStarts("Invalid JSON in mapping argument: ")
             /\ ~ErrStarts("Error loading mapping file: ")

\* a mapping file and an inline mapping that is not JSON were both given:
\* the mapping is the file's
C7_Witness ==
    /\ pc = "check_mapping"
    /\ TruthyStr(args.mapping_file)
    /\ args.mapping = "not valid json"
    /\ mapping = [kind |-> "dict", text |-> "parsing_re: .*"]
    /\ stderr = <<>>

-----------------------------------------------------------------------------
(* C8 *)

\* C8: the remote procedure is called at most once; when the call raises,
\* the process ends with exit code 1, one stderr message that starts with
\* "API error", and nothing on stdout.
C8_ApiFailure ==
    /\ Len(requests) <= 1
    /\ (LastStep = "call_api" /\ pc # "render") =>
          /\ EndedReporting({"API error"})
          /\ stderr[1].text[1] = "API error"
          /\ stdout = <<>>
          /\ Len(requests) = 1

\* the call was made and raised
C8_Witness ==
    /\ LastStep = "call_api"
    /\ Len(requests) = 1
    /\ ExitedWith(1)

-----------------------------------------------------------------------------
(* C9 *)

\* C9: every message reportError writes is a single line, and the
\* multi-line diagnostics are on stdout only.
C9_SingleLine ==
    /\ \A i \in 1..Len(stderr) :
          stderr[i].by = "reportError" =>
              /\ LineCount(stderr[i].text) = 1
              /\ "VALIDATION FAILED" \notin Range(stderr[i].text)
    /\ \A i \in 1..Len(stdout) : LineCount(stdout[i].text) > 1 => LastStep = "render"

-----------------------------------------------------------------------------
(* C10 *)

\* C10: whatever the command line, the action string included, the process
\* ends through a handled exit with code 0, 1 or 2 and never through an
\* uncaught exception: 2 exactly when the parser rejects the command line,
\* and then do_validate has not run; 0 only after the Success outcome was
\* rendered; 1 whenever an error was reported.
C10_HandledExit ==
    pc \in {"exit", "returned", "uncaught"} =>
        /\ pc # "uncaught"
        /\ exitCode \in {<<0>>, <<1>>, <<2>>}
        /\ exitCode = <<2>> <=>
              \/ argv.action = None
              \/ argv.platform \notin {None, "text", "json", "cef", "gcp", "aws"}
              \/ argv.output_format \notin {None, "summary", "json", "yaml"}
        /\ exitCode = <<2>> => ~Did("dispatch")
        /\ exitCode = <<0>> => (LastStep = "render" /\ Said("VALIDATION SUCCESSFUL"))
        /\ Reports # <<>> => exitCode = <<1>>

-----------------------------------------------------------------------------
(* The rendering alone: do_validate from the point where the remote         *)
(* procedure has returned, over a wider set of events                      *)

\* a routing without any hostname
EvtNoHost ==
    Object(<<KV("routing", Object(<<KV("event_type", Scalar("x"))>>)),
             KV("event", Object(<<KV("a", Scalar("1"))>>))>>)
\* an empty event sub-object, and an object as the value of a field
EvtEmptyEvent ==
    Object(<<KV("event", Object(<<>>)),
             KV("routing", Object(<<KV("this", Object(<<KV("hostname", Scalar("h2"))>>))>>)),
             KV("extra", Object(<<KV("x", Scalar("1"))>>))>>)
EventsWide == Events \cup {EvtNoHost, EvtEmptyEvent}

\* the command lines `validate -p cef -i "test data" [-o json|yaml]`
RenderArgv ==
    {[BareArgv EXCEPT !.platform = "cef", !.input = "test data", !.output_format = o] :
        o \in {None, "json", "yaml"}}

\* do_validate about to render: the state the run of such a command line
\* is in when validateUSP has returned
SummaryInit ==
    /\ argv \in RenderArgv
    /\ args = Namespace(argv)
    /\ pc = "render"
    /\ files = [p \in Paths |-> Unopened]
    /\ mapping = PyNone
    /\ mappings = PyNone
    /\ text_input = Val("str", "test data")
    /\ json_input = PyNone
    /\ indexing = PyNone
    /\ requests = <<[platform |-> "cef", hostname |-> None, mapping |-> PyNone,
                     mappings |-> PyNone, indexing |-> PyNone,
                     text_input |-> Val("str", "test data"), json_input |-> PyNone]>>
    /\ result \in [errors : ErrorLists, results : SeqsUpTo(EventsWide, MaxResults)]
    /\ stdout = <<>>
    /\ stderr = <<>>
    /\ exitCode = <<>>
    /\ loads = <<>>
    /\ steps = <<"parse_args", "dispatch", "load_mapping", "check_mapping",
                 "load_mappings", "load_input", "check_input", "load_indexing",
                 "call_api">>

SummaryNext == Render

SummarySpec == SummaryInit /\ [][SummaryNext]_vars

-----------------------------------------------------------------------------
(* C11 *)

\* the write that introduces an event of the summary
IsHeader(w) == w.text[1] = "Event "
\* the place in stdout of the k-th such write
HeaderAt(k) ==
    CHOOSE i \in 1..Len(stdout) :
        /\ IsHeader(stdout[i])
        /\ Cardinality({j \in 1..i : IsHeader(stdout[j])}) = k
\* the writes made for the k-th of n events
Block(k, n) ==
    SubSeq(stdout, HeaderAt(k), IF k < n THEN HeaderAt(k + 1) - 1 ELSE Len(stdout))

\* the hostname the routing of an event carries: routing.hostname and, when
\* there is no such key, routing.this.hostname; "" when there is none
HostnameOf(e) ==
    IF ~HasKey(e, "routing") THEN ""
    ELSE LET r == e.d[CHOOSE i \in 1..Len(e.d) : e.d[i].k = "routing"].v
         IN  IF HasKey(r, "hostname")
             THEN r.d[CHOOSE i \in 1..Len(r.d) : r.d[i].k = "hostname"].v.s
             ELSE IF ~HasKey(r, "this") THEN ""
             ELSE LET t == r.d[CHOOSE i \in 1..Len(r.d) : r.d[i].k = "this"].v
                  IN  IF HasKey(t, "hostname")
                      THEN t.d[CHOOSE i \in 1..Len(t.d) : t.d[i].k = "hostname"].v.s
                      ELSE ""

\* the fields of an event: those of its `event` sub-object, or its own
FieldsOf(e) ==
    IF HasKey(e, "event")
    THEN e.d[CHOOSE i \in 1..Len(e.d) : e.d[i].k = "event"].v.d
    ELSE e.d

\* C11: in the Success outcome with the summary format, each event, in the
\* order of the response, is introduced by its 1-based index; a hostname
\* line follows exactly when its routing carries a hostname, which is
\* routing.hostname or, without that key, routing.this.hostname; then comes
\* one `key: value` line for every field of its `event` sub-object (of the
\* event itself when it has none), in order, except for the key `routing`,
\* which never gets a line; a blank line ends the event.
C11_Summary ==
    (/\ LastStep = "render"
     /\ result.errors = <<>>
     /\ result.results # <<>>
     /\ args.output_format = "summary") =>
        LET n == Len(result.results)
        IN  /\ Cardinality({i \in 1..Len(stdout) : IsHeader(stdout[i])}) = n
            /\ \A k \in 1..n :
                  LET b == Block(k, n)
                      e == result.results[k]
                      host == HostnameOf(e)
                      keys == SelectSeq(FieldsOf(e), LAMBDA f : f.k # "routing")
                      hostLines == SelectSeq(b, LAMBDA w : w.text[1] = "  hostname: ")
                      fieldLines == SelectSeq(b, LAMBDA w : w.text[1] = "  ")
                  IN  /\ b[1].text = <<"Event ", ToString(k), ":", NL>>
                      /\ IF host # ""
                         THEN /\ hostLines = <<b[2]>>
                              /\ b[2].text = <<"  hostname: ", host, NL>>
                         ELSE hostLines = <<>>
                      /\ Len(fieldLines) = Len(keys)
                      /\ \A j \in 1..Len(keys) :
                            /\ Len(fieldLines[j].text) = 5
                            /\ SubSeq(fieldLines[j].text, 1, 3) = <<"  ", keys[j].k, ": ">>
                            /\ fieldLines[j].text[4] =
                                  (IF keys[j].v.t = "s" THEN keys[j].v.s ELSE "{...}")
                      /\ \A j \in 1..Len(fieldLines) : fieldLines[j].text[2] # "routing"
                      /\ Len(b) = Len(hostLines) + Len(fieldLines) + 2
                      /\ b[Len(b)].text = <<NL>>

\* two events were summarised: the first has its hostname under
\* routing.this and a key `routing` among its fields, the second has a
\* routing without a hostname
C11_Witness ==
    /\ LastStep = "render"
    /\ args.output_format = "summary"
    /\ result.errors = <<>>
    /\ result.results = <<EvtThisHost, EvtNoHost>>
    /\ \E i \in 1..Len(stdout) : stdout[i].text = <<"  hostname: ", "h2", NL>>
    /\ ExitedWith(0)

-----------------------------------------------------------------------------
(* C12 *)

\* the order of the steps of do_validate
ValidateOrder ==
    <<"load_mapping", "check_mapping", "load_mappings", "load_input",
      "check_input", "load_indexing", "call_api", "render">>

\* the local steps at which this invocation has a defect, by their place in
\* ValidateOrder, judged from the arguments and from the files opened so far
Defects ==
    {d \in 1..6 :
        \/ /\ d = 1
           /\ IF TruthyStr(args.mapping_file)
              THEN files[MappingPath] \in {Missing, Unreadable} \cup YamlErrorDocs
              ELSE TruthyStr(args.mapping) /\ args.mapping \notin WellFormedJson
        \/ /\ d = 2
           /\ args.mappings_file = None
           /\ args.platform \in {"text", "json"}
           /\ IF TruthyStr(args.mapping_file)
              THEN files[MappingPath] \in YamlNullDocs \cup JsonNullDocs
              ELSE args.mapping \in {None, ""} \cup JsonNullDocs
        \/ /\ d = 3
           /\ TruthyStr(args.mappings_file)
           /\ files[MappingsPath] \notin JsonListDocs \cup {Unopened}
        \/ /\ d = 4
           /\ IF TruthyStr(args.input_file)
              THEN \/ files[InputPath] \in {Missing, Unreadable}
                   \/ args.json_input /\ files[InputPath] \notin JsonListDocs \cup {Unopened}
              ELSE TruthyStr(args.input) /\ args.json_input /\ args.input \notin JsonListDocs
        \/ /\ d = 5
           /\ ~TruthyStr(args.input_file)
           /\ ~TruthyStr(args.input)
        \/ /\ d = 6
           /\ TruthyStr(args.indexing_file)
           /\ files[IndexingPath] \notin JsonListDocs \cup {Unopened}}

FileErrorStarts == {"File not found: ", "Error reading file ", "Invalid JSON in file "}

\* the message `text` is one the step at place d reports
MessageOfStep(text, d) ==
    IF d = 1
    THEN text[1] \in {"Invalid JSON in mapping argument: ", "Error loading mapping file: "}
    ELSE IF d = 2 THEN text[1] = "Platform \""
    ELSE IF d = 3
    THEN \/ text[1] = "--mappings-file must contain a JSON "
         \/ text[1] \in FileErrorStarts /\ text[2] = MappingsPath
    ELSE IF d = 4
    THEN \/ text[1] \in {"JSON input must be an ", "Invalid JSON in input argument: "}
         \/ text[1] \in FileErrorStarts /\ text[2] = InputPath
    ELSE IF d = 5 THEN text[1] = "Either "
    ELSE \/ text[1] = "--indexing-file must contain a JSON "
         \/ text[1] \in FileErrorStarts /\ text[2] = IndexingPath

-----------------------------------------------------------------------------
(* C13 *)

\* the sample a request carries: json_input with --json-input, text_input
\* without
SampleOf(request) == IF args.json_input THEN request.json_input ELSE request.text_input

\* C13: with both --input-file and --input given, the inline value is
\* neither parsed nor validated, and the sample of every request is the
\* content of the file; the sample is the inline value only when no input
\* file is given, and then the file is never opened.
C13_FileOverInline ==
    /\ (Did("load_input") /\ TruthyStr(args.input_file) /\ TruthyStr(args.input)) =>
          /\ files[InputPath] # Unopened
          /\ ~ErrStarts("Invalid JSON in input argument: ")
          /\ ErrStarts("JSON input must be an ") => files[InputPath] \notin JsonListDocs
          /\ (LastStep = "load_input" /\ files[InputPath] \notin {Missing, Unreadable}
                /\ (args.json_input => files[InputPath] \in JsonListDocs)) =>
                pc = "check_input"
    /\ \A i \in 1..Len(requests) :
          IF TruthyStr(args.input_file)
          THEN /\ SampleOf(requests[i]).text = files[InputPath]
               /\ SampleOf(requests[i]) =
                     load_file_content(InputPath, files[InputPath], args.json_input).val
          ELSE /\ TruthyStr(args.input)
               /\ SampleOf(requests[i]).text = args.input
               /\ files[InputPath] = Unopened

\* --json-input with an input file holding a list and an inline value that
\* is not JSON at all: the request went out with the file's list
C13_Witness ==
    /\ args.json_input
    /\ args.input_file = InputPath
    /\ args.input = "test data"
    /\ Len(requests) = 1
    /\ requests[1].json_input.text = "[{\"src\": \"file\"}]"
    /\ requests[1].text_input = PyNone

====
